---- MODULE Spec2Model ----
(***************************************************************************)
(* External scanner of the KDL grammar                                     *)
(* (src/langs/group-maple/kdl/def/grammar/scanner.c).                      *)
(*                                                                         *)
(* One scan call is modelled as a state machine over the lexer cursor: the *)
(* dispatch of tree_sitter_kdl_external_scanner_scan, the opener and the   *)
(* loop of scan_multiline_comment, the opener of scan_raw_string and one   *)
(* action per iteration of the single-line and multi-line body loops.      *)
(* Code points are integers; the input is a finite sequence of them.       *)
(***************************************************************************)
EXTENDS Integers, Sequences, FiniteSets, TLC

VARIABLES
    input,          \* the code points of the text from the call's start position
    lexer,          \* TSLexer cursor: [pos |-> index of the lookahead, adv |-> advance calls]
    valid_symbols,  \* the valid_symbols array of the call: [0..2 -> BOOLEAN]
    result_symbol,  \* lexer->result_symbol
    entry_symbol,   \* lexer->result_symbol as it was when scan was entered
    pc,             \* position of the call in the scanner's code
    hashes,         \* scan_raw_string: number of opening '#'
    after_star,     \* scan_multiline_comment: after_star
    nesting_depth,  \* scan_multiline_comment: nesting_depth
    ret,            \* "none" while the call runs, then "true" or "false" as scan returned
    payload,        \* the handle the driver holds: "unset", or what create returned
    buffer,         \* the bytes of the driver's serialization buffer
    length,         \* the byte count last returned by serialize or passed to deserialize
    op,             \* the entry point the driver called last
    calls,          \* scan calls made so far
    prior           \* what the scan call before this one returned

\* the driver's side of the session: no step of a scan call touches it
driver == <<payload, buffer, length, op, calls, prior>>

vars == <<input, lexer, valid_symbols, result_symbol, entry_symbol, pc,
          hashes, after_star, nesting_depth, ret, driver>>

-----------------------------------------------------------------------------
(* enum { _EOF, MULTI_LINE_COMMENT, RAW_STRING } *)
T_EOF == 0
MULTI_LINE_COMMENT == 1
RAW_STRING == 2

Kinds == {T_EOF, MULTI_LINE_COMMENT, RAW_STRING}

(* Code points the scanner compares against. *)
NUL == 0
LF == 10
FF == 12
CR == 13
Quote == 34
Hash == 35
Star == 42
Slash == 47
Other == 97
NEL == 133
LS == 8232
PS == 8233

-----------------------------------------------------------------------------
(* The cursor (TSLexer): lookahead, eof and advance over the input. *)

\* lexer->lookahead of a cursor at index p: the code point there, 0 at end-of-input
LookaheadAt(p) == IF p > Len(input) THEN 0 ELSE input[p]

\* lexer->eof(lexer) of a cursor at index p
EofAt(p) == p > Len(input)

lookahead == LookaheadAt(lexer.pos)

\* static void advance(TSLexer *lexer): one advance call; the cursor does not
\* move past end-of-input
advance(lx) ==
    [pos |-> IF EofAt(lx.pos) THEN lx.pos ELSE lx.pos + 1, adv |-> lx.adv + 1]

\* is_newline without the cases past ASCII
is_newline_AsciiOnly(c) == c \in {CR, LF, FF}

\* static bool is_newline(int32_t c)
is_newline(c) == c \in {CR, LF, NEL, FF, LS, PS}

\* consume_newline that advances once whatever follows a CR
consume_newline_OneOnly(lx) == advance(lx)

\* static void consume_newline(TSLexer *lexer): the cursor it leaves
consume_newline(lx) ==
    IF LookaheadAt(lx.pos) = CR
    THEN IF LookaheadAt(advance(lx).pos) = LF
         THEN advance(advance(lx))
         ELSE advance(lx)
    ELSE advance(lx)

\* static bool try_consume_hashes(TSLexer *lexer, unsigned hashes): the loop
\* from counter i on; the result is the return value and the cursor it leaves
RECURSIVE try_consume_hashes_from(_, _, _)
try_consume_hashes_from(lx, i, n) ==
    IF i >= n THEN [ok |-> TRUE, lx |-> lx]
    ELSE IF LookaheadAt(lx.pos) # Hash THEN [ok |-> FALSE, lx |-> lx]
    ELSE try_consume_hashes_from(advance(lx), i + 1, n)

\* the loop counter started at 1: one '#' fewer is required and consumed
try_consume_hashes_OneShort(lx, n) == try_consume_hashes_from(lx, 1, n)

try_consume_hashes(lx, n) == try_consume_hashes_from(lx, 0, n)

\* scan_raw_string, `while (lexer->lookahead == '#') { hashes++; advance(lexer); }`:
\* the cursor after the run of '#'
RECURSIVE skip_hashes(_)
skip_hashes(lx) ==
    IF LookaheadAt(lx.pos) = Hash THEN skip_hashes(advance(lx)) ELSE lx

\* a return statement of the scan call
Return(b) == /\ ret' = b
             /\ pc' = "done"

-----------------------------------------------------------------------------
(* tree_sitter_kdl_external_scanner_scan: the dispatch. *)

\* ScanEof without the advance
ScanEof_NoAdvance ==
    /\ pc = "scan"
    /\ valid_symbols[T_EOF] /\ lookahead = 0
    /\ result_symbol' = T_EOF
    /\ Return("true")
    /\ UNCHANGED <<driver, input, lexer, valid_symbols, entry_symbol, hashes, after_star,
                   nesting_depth>>

\* if (valid_symbols[_EOF] && lexer->lookahead == 0)
ScanEof ==
    /\ pc = "scan"
    /\ valid_symbols[T_EOF] /\ lookahead = 0
    /\ result_symbol' = T_EOF
    /\ lexer' = advance(lexer)
    /\ Return("true")
    /\ UNCHANGED <<driver, input, valid_symbols, entry_symbol, hashes, after_star, nesting_depth>>

\* ScanRawString without the test of valid_symbols[RAW_STRING]
ScanRawString_IgnoresValid ==
    /\ pc = "scan"
    /\ ~(valid_symbols[T_EOF] /\ lookahead = 0)
    /\ lookahead = Hash
    /\ pc' = "scan_raw_string"
    /\ UNCHANGED <<driver, input, lexer, valid_symbols, result_symbol, entry_symbol,
                   hashes, after_star, nesting_depth, ret>>

\* if (valid_symbols[RAW_STRING] && lexer->lookahead == '#') return scan_raw_string(lexer);
ScanRawString ==
    /\ pc = "scan"
    /\ ~(valid_symbols[T_EOF] /\ lookahead = 0)
    /\ valid_symbols[RAW_STRING] /\ lookahead = Hash
    /\ pc' = "scan_raw_string"
    /\ UNCHANGED <<driver, input, lexer, valid_symbols, result_symbol, entry_symbol,
                   hashes, after_star, nesting_depth, ret>>

\* if (valid_symbols[MULTI_LINE_COMMENT] && lexer->lookahead == '/') return scan_multiline_comment(lexer);
ScanComment ==
    /\ pc = "scan"
    /\ ~(valid_symbols[T_EOF] /\ lookahead = 0)
    /\ ~(valid_symbols[RAW_STRING] /\ lookahead = Hash)
    /\ valid_symbols[MULTI_LINE_COMMENT] /\ lookahead = Slash
    /\ pc' = "scan_multiline_comment"
    /\ UNCHANGED <<driver, input, lexer, valid_symbols, result_symbol, entry_symbol,
                   hashes, after_star, nesting_depth, ret>>

\* ScanNoMatch that skips the code point no guard names
ScanNoMatch_SkipsOne ==
    /\ pc = "scan"
    /\ ~(valid_symbols[T_EOF] /\ lookahead = 0)
    /\ ~(valid_symbols[RAW_STRING] /\ lookahead = Hash)
    /\ ~(valid_symbols[MULTI_LINE_COMMENT] /\ lookahead = Slash)
    /\ lexer' = advance(lexer)
    /\ Return("false")
    /\ UNCHANGED <<driver, input, valid_symbols, result_symbol, entry_symbol,
                   hashes, after_star, nesting_depth>>

\* return false;
ScanNoMatch ==
    /\ pc = "scan"
    /\ ~(valid_symbols[T_EOF] /\ lookahead = 0)
    /\ ~(valid_symbols[RAW_STRING] /\ lookahead = Hash)
    /\ ~(valid_symbols[MULTI_LINE_COMMENT] /\ lookahead = Slash)
    /\ Return("false")
    /\ UNCHANGED <<driver, input, lexer, valid_symbols, result_symbol, entry_symbol,
                   hashes, after_star, nesting_depth>>

-----------------------------------------------------------------------------
(* scan_multiline_comment *)

\* CommentOpen with result_symbol written as soon as `/*` is read
CommentOpen_KindWrittenEarly ==
    /\ pc = "scan_multiline_comment"
    /\ IF lookahead # Slash
       THEN /\ Return("false")
            /\ UNCHANGED <<lexer, after_star, nesting_depth, result_symbol>>
       ELSE IF LookaheadAt(advance(lexer).pos) # Star
       THEN /\ lexer' = advance(lexer)
            /\ Return("false")
            /\ UNCHANGED <<after_star, nesting_depth, result_symbol>>
       ELSE /\ lexer' = advance(advance(lexer))
            /\ after_star' = FALSE
            /\ nesting_depth' = 1
            /\ result_symbol' = MULTI_LINE_COMMENT
            /\ pc' = "comment_loop"
            /\ UNCHANGED ret
    /\ UNCHANGED <<driver, input, valid_symbols, entry_symbol, hashes>>

\* the opener: `/` then `*`, then after_star = false, nesting_depth = 1
\* CommentOpen with the '*' of the opener left pending as after_star
CommentOpen_OpenerStarPending ==
    /\ pc = "scan_multiline_comment"
    /\ IF lookahead # Slash
       THEN /\ Return("false")
            /\ UNCHANGED <<lexer, after_star, nesting_depth>>
       ELSE IF LookaheadAt(advance(lexer).pos) # Star
       THEN /\ lexer' = advance(lexer)
            /\ Return("false")
            /\ UNCHANGED <<after_star, nesting_depth>>
       ELSE /\ lexer' = advance(advance(lexer))
            /\ after_star' = TRUE
            /\ nesting_depth' = 1
            /\ pc' = "comment_loop"
            /\ UNCHANGED ret
    /\ UNCHANGED <<driver, input, valid_symbols, result_symbol, entry_symbol, hashes>>

\* CommentOpen with the depth counted from 0
CommentOpen_DepthFromZero ==
    /\ pc = "scan_multiline_comment"
    /\ IF lookahead # Slash
       THEN /\ Return("false")
            /\ UNCHANGED <<lexer, after_star, nesting_depth>>
       ELSE IF LookaheadAt(advance(lexer).pos) # Star
       THEN /\ lexer' = advance(lexer)
            /\ Return("false")
            /\ UNCHANGED <<after_star, nesting_depth>>
       ELSE /\ lexer' = advance(advance(lexer))
            /\ after_star' = FALSE
            /\ nesting_depth' = 0
            /\ pc' = "comment_loop"
            /\ UNCHANGED ret
    /\ UNCHANGED <<driver, input, valid_symbols, result_symbol, entry_symbol, hashes>>

\* CommentOpen with the depth restored from the deserialized payload
CommentOpen_DepthFromPayload ==
    /\ pc = "scan_multiline_comment"
    /\ IF lookahead # Slash
       THEN /\ Return("false")
            /\ UNCHANGED <<lexer, after_star, nesting_depth>>
       ELSE IF LookaheadAt(advance(lexer).pos) # Star
       THEN /\ lexer' = advance(lexer)
            /\ Return("false")
            /\ UNCHANGED <<after_star, nesting_depth>>
       ELSE /\ lexer' = advance(advance(lexer))
            /\ after_star' = FALSE
            /\ nesting_depth' = 1 + length
            /\ pc' = "comment_loop"
            /\ UNCHANGED ret
    /\ UNCHANGED <<driver, input, valid_symbols, result_symbol, entry_symbol, hashes>>

CommentOpen ==
    /\ pc = "scan_multiline_comment"
    /\ IF lookahead # Slash
       THEN /\ Return("false")
            /\ UNCHANGED <<lexer, after_star, nesting_depth>>
       ELSE IF LookaheadAt(advance(lexer).pos) # Star
       THEN /\ lexer' = advance(lexer)
            /\ Return("false")
            /\ UNCHANGED <<after_star, nesting_depth>>
       ELSE /\ lexer' = advance(advance(lexer))
            /\ after_star' = FALSE
            /\ nesting_depth' = 1
            /\ pc' = "comment_loop"
            /\ UNCHANGED ret
    /\ UNCHANGED <<driver, input, valid_symbols, result_symbol, entry_symbol, hashes>>

\* a nested `/*` that forgets to count: nesting_depth is left as it is
nested_open_NotCounted(d) == d

\* `nesting_depth++` at a nested `/*`
nested_open(d) == d + 1

\* a `*/` that ends the token at any depth
comment_closed_AtAnyDepth(d) == TRUE

\* `if (nesting_depth == 0)` after the decrement at a `*/`
comment_closed(d) == d = 0

\* CommentLoop with a case '*' that sets after_star and does not advance
CommentLoop_StarNotConsumed ==
    /\ pc = "comment_loop"
    /\ IF lookahead = 0
       THEN /\ Return("false")
            /\ UNCHANGED <<lexer, after_star, nesting_depth, result_symbol>>
       ELSE IF lookahead = Star
       THEN /\ after_star' = TRUE
            /\ UNCHANGED <<lexer, pc, ret, nesting_depth, result_symbol>>
       ELSE IF lookahead = Slash /\ after_star
       THEN /\ lexer' = advance(lexer)
            /\ after_star' = FALSE
            /\ nesting_depth' = nesting_depth - 1
            /\ IF comment_closed(nesting_depth - 1)
               THEN /\ result_symbol' = MULTI_LINE_COMMENT
                    /\ Return("true")
               ELSE UNCHANGED <<pc, ret, result_symbol>>
       ELSE IF lookahead = Slash
       THEN /\ after_star' = FALSE
            /\ IF LookaheadAt(advance(lexer).pos) = Star
               THEN /\ nesting_depth' = nested_open(nesting_depth)
                    /\ lexer' = advance(advance(lexer))
               ELSE /\ lexer' = advance(lexer)
                    /\ UNCHANGED nesting_depth
            /\ UNCHANGED <<pc, ret, result_symbol>>
       ELSE /\ lexer' = advance(lexer)
            /\ after_star' = FALSE
            /\ UNCHANGED <<pc, ret, nesting_depth, result_symbol>>
    /\ UNCHANGED <<driver, input, valid_symbols, entry_symbol, hashes>>

\* one iteration of `for (;;) switch (lexer->lookahead)`
CommentLoop ==
    /\ pc = "comment_loop"
    /\ IF lookahead = 0
       THEN \* case 0: return false;
            /\ Return("false")
            /\ UNCHANGED <<lexer, after_star, nesting_depth, result_symbol>>
       ELSE IF lookahead = Star
       THEN \* case '*'
            /\ lexer' = advance(lexer)
            /\ after_star' = TRUE
            /\ UNCHANGED <<pc, ret, nesting_depth, result_symbol>>
       ELSE IF lookahead = Slash /\ after_star
       THEN \* case '/' closing a `*/`; nesting_depth is unsigned and is >= 1 here
            /\ lexer' = advance(lexer)
            /\ after_star' = FALSE
            /\ nesting_depth' = nesting_depth - 1
            /\ IF comment_closed(nesting_depth - 1)
               THEN /\ result_symbol' = MULTI_LINE_COMMENT
                    /\ Return("true")
               ELSE UNCHANGED <<pc, ret, result_symbol>>
       ELSE IF lookahead = Slash
       THEN \* case '/' that may open a nested `/*`
            /\ after_star' = FALSE
            /\ IF LookaheadAt(advance(lexer).pos) = Star
               THEN /\ nesting_depth' = nested_open(nesting_depth)
                    /\ lexer' = advance(advance(lexer))
               ELSE /\ lexer' = advance(lexer)
                    /\ UNCHANGED nesting_depth
            /\ UNCHANGED <<pc, ret, result_symbol>>
       ELSE \* default
            /\ lexer' = advance(lexer)
            /\ after_star' = FALSE
            /\ UNCHANGED <<pc, ret, nesting_depth, result_symbol>>
    /\ UNCHANGED <<driver, input, valid_symbols, entry_symbol, hashes>>

-----------------------------------------------------------------------------
(* scan_raw_string *)

\* the leading run of '#' is counted, then the opening quote is required
RawHashes ==
    /\ pc = "scan_raw_string"
    /\ IF lookahead # Hash
       THEN /\ Return("false")
            /\ UNCHANGED <<lexer, hashes>>
       ELSE LET lx == skip_hashes(lexer) IN
            /\ lexer' = lx
            /\ hashes' = lx.adv - lexer.adv
            /\ IF LookaheadAt(lx.pos) # Quote
               THEN Return("false")
               ELSE /\ pc' = "raw_open_quote"
                    /\ UNCHANGED ret
    /\ UNCHANGED <<driver, input, valid_symbols, result_symbol, entry_symbol,
                   after_star, nesting_depth>>

\* RawOpenQuote with an empty form whose hashes are missing scanned on as a body
RawOpenQuote_EmptyFormFallsThrough ==
    /\ pc = "raw_open_quote"
    /\ LET q1 == advance(lexer)
           q2 == advance(q1)
           q3 == advance(q2)
           close == try_consume_hashes(q2, hashes)
       IN  IF LookaheadAt(q1.pos) # Quote
           THEN \* return scan_raw_string_single_line(lexer, hashes);
                /\ lexer' = q1
                /\ pc' = "single_line"
                /\ UNCHANGED <<ret, result_symbol>>
           ELSE IF LookaheadAt(q2.pos) # Quote
           THEN \* the empty string must close with the same number of hashes
                /\ lexer' = close.lx
                /\ IF ~close.ok
                   THEN /\ pc' = "single_line"
                        /\ UNCHANGED <<ret, result_symbol>>
                   ELSE /\ result_symbol' = RAW_STRING
                        /\ Return("true")
           ELSE IF ~is_newline(LookaheadAt(q3.pos))
           THEN \* third quote not followed by a newline
                /\ lexer' = q3
                /\ Return("false")
                /\ UNCHANGED result_symbol
           ELSE \* return scan_raw_string_multi_line(lexer, hashes);
                /\ lexer' = consume_newline(q3)
                /\ pc' = "multi_line"
                /\ UNCHANGED <<ret, result_symbol>>
    /\ UNCHANGED <<driver, input, valid_symbols, entry_symbol, hashes, after_star,
                   nesting_depth>>

\* RawOpenQuote with a body after `"""` whatever follows it
RawOpenQuote_NoNewlineRequired ==
    /\ pc = "raw_open_quote"
    /\ LET q1 == advance(lexer)
           q2 == advance(q1)
           q3 == advance(q2)
           close == try_consume_hashes(q2, hashes)
       IN  IF LookaheadAt(q1.pos) # Quote
           THEN \* return scan_raw_string_single_line(lexer, hashes);
                /\ lexer' = q1
                /\ pc' = "single_line"
                /\ UNCHANGED <<ret, result_symbol>>
           ELSE IF LookaheadAt(q2.pos) # Quote
           THEN \* the empty string must close with the same number of hashes
                /\ lexer' = close.lx
                /\ IF ~close.ok
                   THEN /\ Return("false")
                        /\ UNCHANGED result_symbol
                   ELSE /\ result_symbol' = RAW_STRING
                        /\ Return("true")
           ELSE IF ~is_newline(LookaheadAt(q3.pos))
           THEN \* third quote not followed by a newline
                /\ lexer' = q3
                /\ pc' = "multi_line"
                /\ UNCHANGED <<ret, result_symbol>>
           ELSE \* return scan_raw_string_multi_line(lexer, hashes);
                /\ lexer' = consume_newline(q3)
                /\ pc' = "multi_line"
                /\ UNCHANGED <<ret, result_symbol>>
    /\ UNCHANGED <<driver, input, valid_symbols, entry_symbol, hashes, after_star,
                   nesting_depth>>

\* the opening quote is consumed; a second quote makes the empty single-line
\* form or, with a third quote and a newline, the multi-line opener
RawOpenQuote ==
    /\ pc = "raw_open_quote"
    /\ LET q1 == advance(lexer)
           q2 == advance(q1)
           q3 == advance(q2)
           close == try_consume_hashes(q2, hashes)
       IN  IF LookaheadAt(q1.pos) # Quote
           THEN \* return scan_raw_string_single_line(lexer, hashes);
                /\ lexer' = q1
                /\ pc' = "single_line"
                /\ UNCHANGED <<ret, result_symbol>>
           ELSE IF LookaheadAt(q2.pos) # Quote
           THEN \* the empty string must close with the same number of hashes
                /\ lexer' = close.lx
                /\ IF ~close.ok
                   THEN /\ Return("false")
                        /\ UNCHANGED result_symbol
                   ELSE /\ result_symbol' = RAW_STRING
                        /\ Return("true")
           ELSE IF ~is_newline(LookaheadAt(q3.pos))
           THEN \* third quote not followed by a newline
                /\ lexer' = q3
                /\ Return("false")
                /\ UNCHANGED result_symbol
           ELSE \* return scan_raw_string_multi_line(lexer, hashes);
                /\ lexer' = consume_newline(q3)
                /\ pc' = "multi_line"
                /\ UNCHANGED <<ret, result_symbol>>
    /\ UNCHANGED <<driver, input, valid_symbols, entry_symbol, hashes, after_star,
                   nesting_depth>>

\* SingleLineLoop with a failed close probe as a failure of the scan
SingleLineLoop_FailedProbeFails ==
    /\ pc = "single_line"
    /\ LET close == try_consume_hashes(advance(lexer), hashes) IN
       IF EofAt(lexer.pos) \/ lookahead = 0
       THEN /\ Return("false")
            /\ UNCHANGED <<lexer, result_symbol>>
       ELSE IF is_newline(lookahead)
       THEN /\ Return("false")
            /\ UNCHANGED <<lexer, result_symbol>>
       ELSE IF lookahead # Quote
       THEN /\ lexer' = advance(lexer)
            /\ UNCHANGED <<pc, ret, result_symbol>>
       ELSE /\ lexer' = close.lx
            /\ IF close.ok
               THEN /\ result_symbol' = RAW_STRING
                    /\ Return("true")
               ELSE /\ Return("false")
                    /\ UNCHANGED result_symbol
    /\ UNCHANGED <<driver, input, valid_symbols, entry_symbol, hashes, after_star,
                   nesting_depth>>

\* SingleLineLoop that ends at lexer->eof only and takes a NUL as body
SingleLineLoop_NulIsBody ==
    /\ pc = "single_line"
    /\ LET close == try_consume_hashes(advance(lexer), hashes) IN
       IF EofAt(lexer.pos)
       THEN /\ Return("false")
            /\ UNCHANGED <<lexer, result_symbol>>
       ELSE IF is_newline(lookahead)
       THEN \* single-line raw strings cannot contain literal newlines
            /\ Return("false")
            /\ UNCHANGED <<lexer, result_symbol>>
       ELSE IF lookahead # Quote
       THEN /\ lexer' = advance(lexer)
            /\ UNCHANGED <<pc, ret, result_symbol>>
       ELSE \* potential closing delimiter: `"` + hashes
            /\ lexer' = close.lx
            /\ IF close.ok
               THEN /\ result_symbol' = RAW_STRING
                    /\ Return("true")
               ELSE \* not a close; any consumed hashes are part of the body
                    UNCHANGED <<pc, ret, result_symbol>>
    /\ UNCHANGED <<driver, input, valid_symbols, entry_symbol, hashes, after_star,
                   nesting_depth>>

\* scan_raw_string_single_line: one iteration of its loop
SingleLineLoop ==
    /\ pc = "single_line"
    /\ LET close == try_consume_hashes(advance(lexer), hashes) IN
       IF EofAt(lexer.pos) \/ lookahead = 0
       THEN /\ Return("false")
            /\ UNCHANGED <<lexer, result_symbol>>
       ELSE IF is_newline(lookahead)
       THEN \* single-line raw strings cannot contain literal newlines
            /\ Return("false")
            /\ UNCHANGED <<lexer, result_symbol>>
       ELSE IF lookahead # Quote
       THEN /\ lexer' = advance(lexer)
            /\ UNCHANGED <<pc, ret, result_symbol>>
       ELSE \* potential closing delimiter: `"` + hashes
            /\ lexer' = close.lx
            /\ IF close.ok
               THEN /\ result_symbol' = RAW_STRING
                    /\ Return("true")
               ELSE \* not a close; any consumed hashes are part of the body
                    UNCHANGED <<pc, ret, result_symbol>>
    /\ UNCHANGED <<driver, input, valid_symbols, entry_symbol, hashes, after_star,
                   nesting_depth>>

\* MultiLineLoop with a failed probe for the second or third quote as a
\* failure of the scan
MultiLineLoop_LoneQuoteFails ==
    /\ pc = "multi_line"
    /\ LET q1 == advance(lexer)
           q2 == advance(q1)
           q3 == advance(q2)
           close == try_consume_hashes(q3, hashes)
       IN  IF EofAt(lexer.pos) \/ lookahead = 0
           THEN /\ Return("false")
                /\ UNCHANGED <<lexer, result_symbol>>
           ELSE IF lookahead # Quote
           THEN /\ lexer' = IF is_newline(lookahead)
                            THEN consume_newline(lexer)
                            ELSE advance(lexer)
                /\ UNCHANGED <<pc, ret, result_symbol>>
           ELSE IF LookaheadAt(q1.pos) # Quote
           THEN /\ lexer' = q1
                /\ Return("false")
                /\ UNCHANGED result_symbol
           ELSE IF LookaheadAt(q2.pos) # Quote
           THEN /\ lexer' = q2
                /\ Return("false")
                /\ UNCHANGED result_symbol
           ELSE /\ lexer' = close.lx
                /\ IF close.ok
                   THEN /\ result_symbol' = RAW_STRING
                        /\ Return("true")
                   ELSE UNCHANGED <<pc, ret, result_symbol>>
    /\ UNCHANGED <<driver, input, valid_symbols, entry_symbol, hashes, after_star,
                   nesting_depth>>

\* scan_raw_string_multi_line: one iteration of its loop
MultiLineLoop ==
    /\ pc = "multi_line"
    /\ LET q1 == advance(lexer)
           q2 == advance(q1)
           q3 == advance(q2)
           close == try_consume_hashes(q3, hashes)
       IN  IF EofAt(lexer.pos) \/ lookahead = 0
           THEN /\ Return("false")
                /\ UNCHANGED <<lexer, result_symbol>>
           ELSE IF lookahead # Quote
           THEN /\ lexer' = IF is_newline(lookahead)
                            THEN consume_newline(lexer)
                            ELSE advance(lexer)
                /\ UNCHANGED <<pc, ret, result_symbol>>
           ELSE IF LookaheadAt(q1.pos) # Quote
           THEN \* first '"' only
                /\ lexer' = q1
                /\ UNCHANGED <<pc, ret, result_symbol>>
           ELSE IF LookaheadAt(q2.pos) # Quote
           THEN \* first and second '"' only
                /\ lexer' = q2
                /\ UNCHANGED <<pc, ret, result_symbol>>
           ELSE \* potential closing delimiter: `"""` + hashes
                /\ lexer' = close.lx
                /\ IF close.ok
                   THEN /\ result_symbol' = RAW_STRING
                        /\ Return("true")
                   ELSE \* not a close; keep scanning
                        UNCHANGED <<pc, ret, result_symbol>>
    /\ UNCHANGED <<driver, input, valid_symbols, entry_symbol, hashes, after_star,
                   nesting_depth>>

-----------------------------------------------------------------------------
Next ==
    \/ ScanEof
    \/ ScanRawString
    \/ ScanComment
    \/ ScanNoMatch
    \/ CommentOpen
    \/ CommentLoop
    \/ RawHashes
    \/ RawOpenQuote
    \/ SingleLineLoop
    \/ MultiLineLoop

-----------------------------------------------------------------------------
(* Inputs of a scan call. *)

MaxLen == 4         \* longest input over the whole alphabet
MaxComment == 5     \* most pieces of a comment text after `/*`
MaxRaw == 7         \* longest single-line raw-string text after the opening quote
MaxMulti == 6       \* most pieces of a multi-line raw-string text after the opening newline
MaxNewline == 3     \* longest raw-string text over the newline alphabet
MaxHashes == 2      \* most opening '#'
MaxNul == 2         \* longest body over NUL and an ordinary character
MaxCodePoint == 1114111 \* largest code point is_newline is checked on

Strings(A, n) == UNION {[1..k -> A] : k \in 0..n}

RECURSIVE Flatten(_)
Flatten(ss) == IF ss = <<>> THEN <<>> ELSE Head(ss) \o Flatten(Tail(ss))

Hashes(n) == [i \in 1..n |-> Hash]

Chars == {NUL, Quote, Hash, Star, Slash, Other}
Newlines == {CR, LF, NEL, FF, LS, PS}

\* every sequence over the alphabet, up to MaxLen
AnyInputs == Strings(Chars, MaxLen)

\* `/*` and a text made of the pieces '/', '*', other, `/*` and `*/`
CommentPieces == {<<Slash>>, <<Star>>, <<Other>>, <<Slash, Star>>, <<Star, Slash>>}
CommentInput(b) == <<Slash, Star>> \o Flatten(b)

\* '#' x n (n = 0 included), `"` and a text over { '"', '#', other }
RawChars == {Quote, Hash, Other}
RawInput(n, b) == Hashes(n) \o <<Quote>> \o b

\* '#' x n, `"""`, the newline LF or CR LF, and a text made of the pieces '"',
\* '#', other and `"""`
MultiPieces == {<<Quote>>, <<Hash>>, <<Other>>, <<Quote, Quote, Quote>>}
MultiNewlines == {<<LF>>, <<CR, LF>>}
MultiInput(n, nl, b) == Hashes(n) \o <<Quote, Quote, Quote>> \o nl \o Flatten(b)

\* `#"` or `#"""` and a text over the newlines, '"', '#' and other
NewlineOpeners == {<<Hash, Quote>>, <<Hash, Quote, Quote, Quote>>}
NewlineChars == Newlines \cup {Quote, Hash, Other}
NewlineInput(o, b) == o \o b

ValidSets == [Kinds -> BOOLEAN]

\* the three kinds valid: the texts built around a token start with '/', '#'
\* or '"', where the dispatch reads the validity of that token's kind only
TokenValid == {[k \in Kinds |-> TRUE]}

\* a symbol of the grammar that is none of the scanner's kinds
OtherSymbol == 3

\* result_symbol before the call: 0 as the driver resets it, or another symbol
EntrySymbols == {0, OtherSymbol}

\* scan is entered on the text, with a valid-kind set and a result_symbol
\* texts of one code point: those the scanner names, tab and space
Whitespace == {9, 32}
FirstChars == Chars \cup Newlines \cup Whitespace

\* a comment and raw strings with NUL in the body and the closer after it
NulDelimiters ==
    {[open |-> <<Slash, Star>>, close |-> <<Star, Slash>>],
     [open |-> <<Hash, Quote>>, close |-> <<Quote, Hash>>],
     [open |-> <<Hash, Quote, Quote, Quote, LF>>,
      close |-> <<Quote, Quote, Quote, Hash>>]}
NulChars == {NUL, Other}
NulInput(d, b) == d.open \o b \o d.close

\* no scan call has returned yet
NoOutcome == [ret |-> "none", result_symbol |-> OtherSymbol, pos |-> 0]

\* one scan call in the middle of a session: the handle is the one create
\* returned, and nothing was deserialized
InitOn(text, valids, entries) ==
    /\ input = text
    /\ valid_symbols \in valids
    /\ entry_symbol \in entries
    /\ result_symbol = entry_symbol
    /\ lexer = [pos |-> 1, adv |-> 0]
    /\ pc = "scan"
    /\ hashes = 0
    /\ after_star = FALSE
    /\ nesting_depth = 0
    /\ ret = "none"
    /\ payload = "null"
    /\ buffer = <<>>
    /\ length = 0
    /\ op = "scan"
    /\ calls = 1
    /\ prior = NoOutcome

Init ==
    \/ \E t \in AnyInputs : InitOn(t, ValidSets, EntrySymbols)
    \/ \E b \in Strings(CommentPieces, MaxComment) :
          InitOn(CommentInput(b), TokenValid, {OtherSymbol})
    \/ \E n \in 0..MaxHashes, b \in Strings(RawChars, MaxRaw) :
          InitOn(RawInput(n, b), TokenValid, {OtherSymbol})
    \/ \E n \in 1..MaxHashes, nl \in MultiNewlines,
          b \in Strings(MultiPieces, MaxMulti) :
          InitOn(MultiInput(n, nl, b), TokenValid, {OtherSymbol})
    \/ \E o \in NewlineOpeners, b \in Strings(NewlineChars, MaxNewline) :
          InitOn(NewlineInput(o, b), TokenValid, {OtherSymbol})
    \/ \E c \in FirstChars : InitOn(<<c>>, ValidSets, EntrySymbols)
    \/ \E d \in NulDelimiters, b \in Strings(NulChars, MaxNul) :
          InitOn(NulInput(d, b), TokenValid, {OtherSymbol})

Spec == Init /\ [][Next]_vars

-----------------------------------------------------------------------------
(* The session: the driver's calls of the five entry points. The driver calls
   one entry point at a time, and only between two scan calls. *)

MaxCalls == 2
MaxPayload == 1
MaxSession == 3

Bytes == {255}
Buffers == Strings(Bytes, MaxPayload)

\* no scan call is running
BetweenCalls == pc \in {"idle", "done"}

\* what a scan call returned: the boolean, the result kind, the cursor
Outcome == [ret |-> ret, result_symbol |-> result_symbol, pos |-> lexer.pos]

scanner == <<input, lexer, valid_symbols, result_symbol, entry_symbol, pc,
             hashes, after_star, nesting_depth, ret>>

\* serialize reporting the byte count of what was last deserialized
serialize_EchoesLength(len) == len

\* tree_sitter_kdl_external_scanner_serialize: return 0
serialize(len) == 0

\* tree_sitter_kdl_external_scanner_create: return NULL
Create ==
    /\ BetweenCalls
    /\ payload = "unset"
    /\ payload' = "null"
    /\ op' = "create"
    /\ UNCHANGED <<scanner, buffer, length, calls, prior>>

\* tree_sitter_kdl_external_scanner_destroy: empty body
Destroy ==
    /\ BetweenCalls
    /\ payload # "unset"
    /\ payload' = "unset"
    /\ op' = "destroy"
    /\ UNCHANGED <<scanner, buffer, length, calls, prior>>

\* tree_sitter_kdl_external_scanner_serialize: the buffer is not written
Serialize ==
    /\ BetweenCalls
    /\ payload # "unset"
    /\ length' = serialize(length)
    /\ op' = "serialize"
    /\ UNCHANGED <<scanner, payload, buffer, calls, prior>>

\* tree_sitter_kdl_external_scanner_deserialize: empty body; the driver hands
\* it any bytes
Deserialize ==
    /\ BetweenCalls
    /\ payload # "unset"
    /\ \E b \in Buffers :
          /\ buffer' = b
          /\ length' = Len(b)
    /\ op' = "deserialize"
    /\ UNCHANGED <<scanner, payload, calls, prior>>

\* the driver calls scan, the cursor at the same place of the same text and
\* with the same valid_symbols as in the call before; the locals of a call
\* are fresh
ScanCall ==
    /\ BetweenCalls
    /\ payload # "unset"
    /\ calls < MaxCalls
    /\ calls' = calls + 1
    /\ prior' = IF calls = 0 THEN NoOutcome ELSE Outcome
    /\ op' = "scan"
    /\ lexer' = [pos |-> 1, adv |-> 0]
    /\ entry_symbol' = result_symbol
    /\ pc' = "scan"
    /\ ret' = "none"
    /\ hashes' = 0
    /\ after_star' = FALSE
    /\ nesting_depth' = 0
    /\ UNCHANGED <<input, valid_symbols, result_symbol, payload, buffer, length>>

SessionNext ==
    \/ Create
    \/ Destroy
    \/ Serialize
    \/ Deserialize
    \/ ScanCall
    \/ ScanEof
    \/ ScanRawString
    \/ ScanComment
    \/ ScanNoMatch
    \/ CommentOpen
    \/ CommentLoop
    \/ RawHashes
    \/ RawOpenQuote
    \/ SingleLineLoop
    \/ MultiLineLoop

SessionPieces ==
    {<<Hash, Quote>>, <<Quote, Quote>>, <<Quote, Hash>>, <<LF>>,
     <<Slash, Star>>, <<Star, Slash>>}

SessionValid == TokenValid \cup {[k \in Kinds |-> FALSE]}

\* before the driver's first call
SessionInit ==
    /\ \E b \in Strings(SessionPieces, MaxSession) : input = Flatten(b)
    /\ valid_symbols \in SessionValid
    /\ entry_symbol = OtherSymbol
    /\ result_symbol = OtherSymbol
    /\ lexer = [pos |-> 1, adv |-> 0]
    /\ pc = "idle"
    /\ hashes = 0
    /\ after_star = FALSE
    /\ nesting_depth = 0
    /\ ret = "none"
    /\ payload = "unset"
    /\ buffer = <<>>
    /\ length = 0
    /\ op = "none"
    /\ calls = 0
    /\ prior = NoOutcome

SessionSpec == SessionInit /\ [][SessionNext]_vars

-----------------------------------------------------------------------------
(* Properties. *)

Done == pc = "done"

\* C1: whenever scan has returned true, the kind in result_symbol is one of
\* the three kinds and is marked valid in the valid_symbols of the call.
ReportedKindIsValid ==
    ret = "true" => result_symbol \in Kinds /\ valid_symbols[result_symbol]

\* a raw string is reported by a call in which the comment kind is not valid
ReportedKindIsValid_Witness ==
    /\ ret = "true"
    /\ result_symbol = RAW_STRING
    /\ ~valid_symbols[MULTI_LINE_COMMENT]
    /\ ~valid_symbols[T_EOF]

-----------------------------------------------------------------------------
(* Nested comments, read off the input without the scanner: d openers `/*`, *)
(* then d closers `*/`, with runs of ordinary characters between them.      *)

\* the index after the run of ordinary characters that starts at p
RECURSIVE SkipOther(_)
SkipOther(p) ==
    IF p <= Len(input) /\ input[p] = Other THEN SkipOther(p + 1) ELSE p

\* the two code points a, b are at p and p + 1
PairAt(p, a, b) == p + 1 <= Len(input) /\ input[p] = a /\ input[p + 1] = b

\* openers (each followed by ordinary characters) from p, d of them read so far
RECURSIVE NestedOpens(_, _)
NestedOpens(p, d) ==
    IF PairAt(p, Slash, Star)
    THEN NestedOpens(SkipOther(p + 2), d + 1)
    ELSE [p |-> p, d |-> d]

\* d closers (ordinary characters between them) from p: the index after the
\* last one, 0 when they are not there
RECURSIVE NestedCloses(_, _)
NestedCloses(p, d) ==
    IF ~PairAt(p, Star, Slash) THEN 0
    ELSE IF d = 1 THEN p + 2
    ELSE NestedCloses(SkipOther(p + 2), d - 1)

\* the depth of the nested comment the input starts with
NestedCommentDepth == NestedOpens(1, 0).d

\* the index after the nested comment the input starts with, 0 when it starts
\* with none
NestedCommentEnd ==
    IF NestedCommentDepth = 0 THEN 0
    ELSE NestedCloses(NestedOpens(1, 0).p, NestedCommentDepth)

\* C2: with the comment kind valid, an input that starts with d >= 1 properly
\* nested `/* */` pairs is scanned as one multi-line comment: scan returns true,
\* exactly when nesting_depth reaches 0, with the cursor right after the `*/`
\* that closes the outermost `/*` (no character after it is consumed).
NestedCommentIsOneToken ==
    (/\ pc \in {"comment_loop", "done"}
     /\ valid_symbols[MULTI_LINE_COMMENT]
     /\ NestedCommentEnd > 0) =>
        /\ ret = "true" <=> nesting_depth = 0
        /\ pc = "comment_loop" => ret = "none"
        /\ Done => /\ ret = "true"
                   /\ result_symbol = MULTI_LINE_COMMENT
                   /\ lexer.pos = NestedCommentEnd

\* a comment of depth 2 with text inside and a character after it has been scanned
NestedCommentIsOneToken_Witness ==
    /\ valid_symbols[MULTI_LINE_COMMENT]
    /\ NestedCommentDepth = 2
    /\ NestedCommentEnd > 0
    /\ NestedCommentEnd <= Len(input)
    /\ input[3] = Other
    /\ Done
    /\ ret = "true"

\* the comment text from p on, read with d comments open: the index after the
\* `*/` that brings the depth to 0, or 0 when the input ends first
RECURSIVE CommentEndFrom(_, _)
CommentEndFrom(p, d) ==
    IF d = 0 THEN p
    ELSE IF p > Len(input) THEN 0
    ELSE IF PairAt(p, Slash, Star) THEN CommentEndFrom(p + 2, d + 1)
    ELSE IF PairAt(p, Star, Slash) THEN CommentEndFrom(p + 2, d - 1)
    ELSE CommentEndFrom(p + 1, d)

\* the input begins with `/*` and ends before the nesting depth is back to 0
UnterminatedComment == PairAt(1, Slash, Star) /\ CommentEndFrom(3, 1) = 0

\* C3: an input that begins with `/*` and reaches end-of-input before the
\* nesting depth returns to 0 never matches: scan returns false.
UnterminatedCommentFails ==
    (Done /\ UnterminatedComment) => ret = "false"

\* the inner `/*` of an unterminated comment was closed, the outer one was not,
\* and scan has returned at end-of-input
UnterminatedCommentFails_Witness ==
    /\ UnterminatedComment
    /\ valid_symbols[MULTI_LINE_COMMENT]
    /\ PairAt(3, Slash, Star)
    /\ PairAt(5, Star, Slash)
    /\ Done
    /\ ret = "false"
    /\ lexer.pos = Len(input) + 1

-----------------------------------------------------------------------------
(* Raw strings, read off the input without the scanner. *)

\* the length of the run of '#' that starts at p
RECURSIVE HashRunAt(_)
HashRunAt(p) ==
    IF p <= Len(input) /\ input[p] = Hash THEN 1 + HashRunAt(p + 1) ELSE 0

\* the number of '#' the input starts with
LeadingHashes == HashRunAt(1)

\* `abc`: three ordinary characters
Abc == <<Other, Other, Other>>

\* '#' x n, `"abc"`, '#' x n
AbcLiteral(n) == Hashes(n) \o <<Quote>> \o Abc \o <<Quote>> \o Hashes(n)

\* scan has returned true with a raw string that ends at index p - 1
RawStringUpTo(p) ==
    /\ ret = "true"
    /\ result_symbol = RAW_STRING
    /\ lexer.pos = p

\* C4 as stated, N = 0 included: with the raw-string kind valid, scan on
\* '#' x N `"abc"` '#' x N returns true with kind raw string and the cursor at
\* the end of the input.
AbcLiteralIsOneToken_AnyN ==
    (Done /\ valid_symbols[RAW_STRING] /\ input = AbcLiteral(LeadingHashes)) =>
        RawStringUpTo(Len(input) + 1)

\* C4, amended to N >= 1: with the raw-string kind valid, scan on
\* '#' x N `"abc"` '#' x N returns true with kind raw string and the cursor at
\* the end of the input.
AbcLiteralIsOneToken ==
    (/\ Done
     /\ valid_symbols[RAW_STRING]
     /\ LeadingHashes >= 1
     /\ input = AbcLiteral(LeadingHashes)) =>
        RawStringUpTo(Len(input) + 1)

\* `##"abc"##` has been scanned
AbcLiteralIsOneToken_Witness ==
    /\ valid_symbols[RAW_STRING]
    /\ input = AbcLiteral(2)
    /\ Done
    /\ hashes = 2

\* the first index from p on where `"` is followed by at least n '#',
\* 0 when there is none
RECURSIVE FirstCloser(_, _)
FirstCloser(p, n) ==
    IF p > Len(input) THEN 0
    ELSE IF input[p] = Quote /\ HashRunAt(p + 1) >= n THEN p
    ELSE FirstCloser(p + 1, n)

\* no NUL and no newline at the indices p .. q - 1
PlainBetween(p, q) ==
    \A i \in p..(q - 1) : input[i] # NUL /\ input[i] \notin Newlines

\* the index of the first body character of a raw string with n opening '#'
BodyStart(n) == n + 2

\* the input opens a single-line raw string with N >= 1 hashes whose first
\* body character is not `"`, and the body holds a closer with no NUL and no
\* newline before the earliest one
SingleLineWithCloser ==
    /\ LeadingHashes >= 1
    /\ Len(input) >= BodyStart(LeadingHashes)
    /\ input[LeadingHashes + 1] = Quote
    /\ input[BodyStart(LeadingHashes)] # Quote
    /\ FirstCloser(BodyStart(LeadingHashes), LeadingHashes) > 0
    /\ PlainBetween(BodyStart(LeadingHashes),
                    FirstCloser(BodyStart(LeadingHashes), LeadingHashes))

\* the index after the N-th '#' of the earliest closer
SingleLineEnd ==
    FirstCloser(BodyStart(LeadingHashes), LeadingHashes) + LeadingHashes + 1

\* C5: in a single-line raw string opened with N >= 1 hashes, a `"` followed
\* by fewer than N '#' is absorbed as body: the token closes at the earliest
\* `"` of the body that is followed by N '#', and the cursor ends right after
\* the N-th '#' of that closer (further '#' are not consumed).
SingleLineClosesAtFirstCloser ==
    (Done /\ valid_symbols[RAW_STRING] /\ SingleLineWithCloser) =>
        RawStringUpTo(SingleLineEnd)

\* a raw string with 2 hashes was closed after a `"` followed by one '#' only
\* was absorbed, and a '#' after the closer is left unconsumed
SingleLineClosesAtFirstCloser_Witness ==
    /\ valid_symbols[RAW_STRING]
    /\ SingleLineWithCloser
    /\ LeadingHashes = 2
    /\ \E j \in BodyStart(2)..(SingleLineEnd - 4) :
          input[j] = Quote /\ HashRunAt(j + 1) = 1
    /\ LookaheadAt(SingleLineEnd) = Hash
    /\ Done
    /\ RawStringUpTo(SingleLineEnd)

\* the input opens a single-line raw string (N >= 1 hashes, `"`, a first body
\* character that is not `"`) and index j holds a newline of its body that
\* comes before any closing delimiter
NewlineInSingleLineBody(j) ==
    /\ LeadingHashes >= 1
    /\ Len(input) >= BodyStart(LeadingHashes)
    /\ input[LeadingHashes + 1] = Quote
    /\ input[BodyStart(LeadingHashes)] # Quote
    /\ j >= BodyStart(LeadingHashes)
    /\ input[j] \in Newlines
    /\ \/ FirstCloser(BodyStart(LeadingHashes), LeadingHashes) = 0
       \/ j < FirstCloser(BodyStart(LeadingHashes), LeadingHashes)

\* C6: a single-line raw string with a literal newline (CR, LF, NEL, FF, LS
\* or PS) after the opening quote and before a completed closing delimiter
\* never matches: scan returns false.
NewlineInSingleLineFails ==
    (Done /\ \E j \in 1..Len(input) : NewlineInSingleLineBody(j)) =>
        ret = "false"

\* scan has returned false at a line separator that comes right after a
\* failed close probe
NewlineInSingleLineFails_Witness ==
    /\ valid_symbols[RAW_STRING]
    /\ \E j \in 1..Len(input) :
          /\ NewlineInSingleLineBody(j)
          /\ input[j] = LS
          /\ j - 1 >= BodyStart(LeadingHashes)
          /\ input[j - 1] = Quote
          /\ lexer.pos = j
    /\ Done
    /\ ret = "false"

\* `"""` at p, followed by at least n '#'
TripleCloserAt(p, n) ==
    /\ p + 2 <= Len(input)
    /\ input[p] = Quote /\ input[p + 1] = Quote /\ input[p + 2] = Quote
    /\ HashRunAt(p + 3) >= n

\* the first index from p on where `"""` is followed by at least n '#',
\* 0 when there is none
RECURSIVE FirstTripleCloser(_, _)
FirstTripleCloser(p, n) ==
    IF p > Len(input) THEN 0
    ELSE IF TripleCloserAt(p, n) THEN p
    ELSE FirstTripleCloser(p + 1, n)

\* the input starts with '#' x N (N >= 1), `"""` and a newline
MultiLineOpener ==
    /\ LeadingHashes >= 1
    /\ Len(input) >= LeadingHashes + 4
    /\ \A i \in 1..3 : input[LeadingHashes + i] = Quote
    /\ input[LeadingHashes + 4] \in Newlines

\* the index of the first body character: after the newline, CR LF being one
MultiBodyStart ==
    IF input[LeadingHashes + 4] = CR /\ LookaheadAt(LeadingHashes + 5) = LF
    THEN LeadingHashes + 6
    ELSE LeadingHashes + 5

\* the index of the closing `"""` of the multi-line raw string, 0 when none
MultiCloser == FirstTripleCloser(MultiBodyStart, LeadingHashes)

\* the input is '#' x N `"""` newline body `"""` '#' x N ...: the body has no
\* NUL, holds no `"""` followed by N '#', and does not end in `"`,
\* so that each `"` or `""` of it is followed by a character that is not `"`
MultiLineWithCloser ==
    /\ MultiLineOpener
    /\ MultiCloser > 0
    /\ MultiCloser > MultiBodyStart => input[MultiCloser - 1] # Quote
    /\ \A i \in MultiBodyStart..(MultiCloser - 1) : input[i] # NUL

\* the index after the N-th '#' of the closing delimiter
MultiLineEnd == MultiCloser + 3 + LeadingHashes

\* C7: a multi-line raw string '#' x N `"""` newline body `"""` '#' x N with
\* N >= 1, in whose body every `"` or `""` is followed by a character that is
\* not `"`, is one raw-string token that ends right after the closing hashes:
\* a lone `"` or `""`, and a `"""` followed by fewer than N '#', are kept as
\* body and the scan goes on to the closer.
MultiLineIsOneToken ==
    (Done /\ valid_symbols[RAW_STRING] /\ MultiLineWithCloser) =>
        RawStringUpTo(MultiLineEnd)

\* a multi-line raw string was closed after a lone `"` and a `"""` that is
\* followed by fewer than N '#' were kept as body
MultiLineIsOneToken_Witness ==
    /\ valid_symbols[RAW_STRING]
    /\ MultiLineWithCloser
    /\ \E j \in MultiBodyStart..(MultiCloser - 1) :
          /\ input[j] = Quote
          /\ input[j + 1] # Quote
          /\ (j > MultiBodyStart => input[j - 1] # Quote)
    /\ \E j \in MultiBodyStart..(MultiCloser - 1) :
          /\ TripleCloserAt(j, 0)
          /\ HashRunAt(j + 3) < LeadingHashes
          /\ input[j + 3] # Quote
    /\ Done
    /\ RawStringUpTo(MultiLineEnd)

-----------------------------------------------------------------------------
(* End-of-input, newlines and the result kind. *)

\* C8: with the cursor at end-of-input, scan returns true with kind
\* end-of-input after exactly one advance when the end-of-input kind is valid,
\* whatever the validity of the other two kinds, and returns false when the
\* end-of-input kind is not valid.
EofTokenAtEndOfInput ==
    (Done /\ EofAt(1)) =>
        IF valid_symbols[T_EOF]
        THEN ret = "true" /\ result_symbol = T_EOF /\ lexer.adv = 1
        ELSE ret = "false"

\* the end-of-input token was reported with all three kinds valid
EofTokenAtEndOfInput_Witness ==
    /\ EofAt(1)
    /\ \A k \in Kinds : valid_symbols[k]
    /\ Done
    /\ ret = "true"
    /\ result_symbol = T_EOF
    /\ lexer.adv = 1

\* is_newline is true of CR, LF, U+0085, U+000C, U+2028 and U+2029 and of no
\* other code point
IsNewlineExact ==
    \A c \in 0..MaxCodePoint :
        is_newline(c) <=> c \in {13, 10, 133, 12, 8232, 8233}

\* the number of code points consume_newline is to advance at index p:
\* 2 at CR immediately followed by LF, 1 otherwise
NewlineWidthAt(p) ==
    IF LookaheadAt(p) = CR /\ LookaheadAt(p + 1) = LF THEN 2 ELSE 1

\* the cursor moved by n code points in n advance calls
Advanced(n) == lexer'.pos = lexer.pos + n /\ lexer'.adv = lexer.adv + n

\* C9: is_newline is true exactly of the six newline code points, and
\* consume_newline, called at a newline (in the multi-line body and after the
\* opening `"""`), advances two code points at CR LF and one in every other
\* case.
NewlineClassifiedAndConsumed ==
    /\ []IsNewlineExact
    /\ [][/\ (pc = "multi_line" /\ lookahead \in Newlines) =>
                Advanced(NewlineWidthAt(lexer.pos))
          /\ (/\ pc = "raw_open_quote"
              /\ \A i \in 0..2 : LookaheadAt(lexer.pos + i) = Quote
              /\ LookaheadAt(lexer.pos + 3) \in Newlines) =>
                Advanced(3 + NewlineWidthAt(lexer.pos + 3))]_vars

\* the opening newline CR LF was consumed as one unit, and a lone CR of the
\* body as one code point
NewlineClassifiedAndConsumed_Witness ==
    /\ MultiLineOpener
    /\ input[LeadingHashes + 4] = CR
    /\ LookaheadAt(LeadingHashes + 5) = LF
    /\ LookaheadAt(LeadingHashes + 6) = CR
    /\ pc = "multi_line"
    /\ lexer.pos = LeadingHashes + 7
    /\ lexer.adv = LeadingHashes + 6

\* C10: no partial token is committed: as long as scan has not returned true
\* (it is running, or has returned false) result_symbol is what it was on
\* entry, so it is written only on a step that returns true.
ResultKindOnlyOnSuccess ==
    ret # "true" => result_symbol = entry_symbol

\* scan has returned false after the cursor was advanced into a comment
ResultKindOnlyOnSuccess_Witness ==
    /\ Done
    /\ ret = "false"
    /\ UnterminatedComment
    /\ lexer.adv > 2
    /\ result_symbol = entry_symbol

-----------------------------------------------------------------------------
(* Termination. *)

\* the three loops of the scanner
InLoop == pc \in {"comment_loop", "single_line", "multi_line"}

\* how far the call is from the loops: the dispatch, then the openers, then
\* the loops, then the return
Stage ==
    CASE pc = "scan" -> 4
      [] pc \in {"scan_multiline_comment", "scan_raw_string"} -> 3
      [] pc = "raw_open_quote" -> 2
      [] InLoop -> 1
      [] pc = "done" -> 0

\* C11: every scan call terminates. Each iteration of the comment loop, the
\* single-line loop and the multi-line loop returns or advances the cursor by
\* at least one code point; every other step moves the call on towards the
\* loops or the return; a call that has not returned can always take a step;
\* and the number of advances is at most the length of the input, plus the
\* one advance of the end-of-input token.
ScanTerminates ==
    /\ [](Done \/ ENABLED Next)
    /\ [](lexer.pos <= Len(input) + 1 /\ lexer.adv <= Len(input) + 1)
    /\ [](lexer.adv > Len(input) => (Done /\ result_symbol = T_EOF /\ Len(input) = 0))
    /\ [][/\ InLoop => (pc' = "done" \/ (pc' = pc /\ lexer'.pos > lexer.pos))
          /\ ~InLoop => Stage' < Stage]_vars

\* a multi-line raw string without a closer was scanned up to end-of-input,
\* one advance for each code point, and scan has returned
ScanTerminates_Witness ==
    /\ MultiLineOpener
    /\ Len(input) >= 10
    /\ Done
    /\ ret = "false"
    /\ lexer.pos = Len(input) + 1
    /\ lexer.adv = Len(input)

-----------------------------------------------------------------------------
(* The closer of a multi-line raw string after extra quotes. *)

\* C14: the multi-line body scanner never misses a closing delimiter. For
\* every body without NUL, the token closes at the first position where `"""`
\* followed by N '#' occurs, also when that position is right after one or
\* more `"` of the body.
MultiLineNeverMissesCloser ==
    (/\ Done
     /\ valid_symbols[RAW_STRING]
     /\ MultiLineOpener
     /\ MultiCloser > 0
     /\ \A i \in MultiBodyStart..(MultiCloser - 1) : input[i] # NUL) =>
        RawStringUpTo(MultiLineEnd)

-----------------------------------------------------------------------------
(* The depth counter and the delimiters of a comment. *)

\* C15: the depth counter never underflows. nesting_depth is 1 when the loop
\* is entered and at least 1 at the head of every iteration; it is decremented
\* only on a '/' seen with after_star true, by one and never from 0; and the
\* scanner returns true at the step where it becomes 0, and at no other step.
DepthNeverUnderflows ==
    /\ [](nesting_depth >= 0)
    /\ []((pc = "comment_loop") => (nesting_depth >= 1))
    /\ [][/\ (pc # "comment_loop" /\ pc' = "comment_loop") => (nesting_depth' = 1)
          /\ (nesting_depth' < nesting_depth) =>
                /\ pc = "comment_loop"
                /\ lookahead = Slash
                /\ after_star
                /\ nesting_depth >= 1
                /\ nesting_depth' = nesting_depth - 1
          /\ (pc = "comment_loop") =>
                ((nesting_depth' = 0) <=> (pc' = "done" /\ ret' = "true"))]_vars

\* the loop is at its head after the inner `*/` of a comment of depth 2 took
\* the depth from 2 to 1
DepthNeverUnderflows_Witness ==
    /\ pc = "comment_loop"
    /\ NestedCommentDepth = 2
    /\ nesting_depth = 1
    /\ ~after_star
    /\ lexer.pos >= 7
    /\ input[lexer.pos - 2] = Star
    /\ input[lexer.pos - 1] = Slash

\* the comment kind is valid and the end-of-input and raw-string guards do
\* not take the input, which is text
CommentCallOn(text) ==
    /\ input = text
    /\ valid_symbols[MULTI_LINE_COMMENT]

\* `/*/`, `/**/`, and a comment of depth 2 whose inner `*/` is followed by `**/`
SlashStarSlash == <<Slash, Star, Slash>>
EmptyComment == <<Slash, Star, Star, Slash>>
CloseThenStars == <<Slash, Star, Slash, Star, Star, Slash, Star, Star, Slash>>

\* C16: comment delimiters never overlap. The loop is at its head with
\* after_star true only after a step that consumes one '*' at the loop head,
\* which is no opener's '*' (an opener's '*' is consumed together with its
\* '/', and leaves after_star false), so after_star at a loop head says that the last consumed character
\* is such a '*'; a '*' at the loop head never changes the depth, and the
\* depth is incremented only at a '/' seen with after_star false and followed
\* by '*'. `/*/` does not match, `/**/` matches, and the '*' after a `*/` that
\* leaves depth 1 does not open a comment.
DelimitersNeverOverlap ==
    /\ []((pc = "comment_loop" /\ after_star) =>
             (lexer.pos >= 4 /\ input[lexer.pos - 1] = Star))
    /\ []((Done /\ input = SlashStarSlash) => (ret = "false"))
    /\ []((Done /\ CommentCallOn(EmptyComment)) =>
             (ret = "true" /\ lexer.pos = 5))
    /\ []((Done /\ CommentCallOn(CloseThenStars)) =>
             (ret = "true" /\ lexer.pos = 10))
    /\ [][/\ (after_star' /\ pc' = "comment_loop") =>
                /\ pc = "comment_loop"
                /\ lookahead = Star
                /\ lexer'.pos = lexer.pos + 1
                /\ nesting_depth' = nesting_depth
          /\ (nesting_depth' > nesting_depth) =>
                /\ lookahead = Slash
                /\ LookaheadAt(lexer.pos + 1) = Star
                /\ lexer'.pos = lexer.pos + 2
                /\ ~after_star'
                /\ (pc = "comment_loop") =>
                      (~after_star /\ nesting_depth' = nesting_depth + 1)
          /\ (pc = "comment_loop" /\ nesting_depth' < nesting_depth) =>
                /\ lexer'.pos = lexer.pos + 1
                /\ ~after_star']_vars

\* the comment whose inner `*/` is followed by `**/` was scanned to its end
DelimitersNeverOverlap_Witness ==
    /\ CommentCallOn(CloseThenStars)
    /\ Done
    /\ ret = "true"
    /\ nesting_depth = 0
    /\ lexer.pos = 10

-----------------------------------------------------------------------------
(* The openers of a raw string. *)

\* the input starts with '#' x N (N >= 1), `""` and a code point that is not
\* `"`, or ends there
EmptyForm ==
    /\ LeadingHashes >= 1
    /\ PairAt(LeadingHashes + 1, Quote, Quote)
    /\ LookaheadAt(LeadingHashes + 3) # Quote

\* C17: the empty single-line form. After '#' x N (N >= 1, the hashes
\* scan_raw_string counted) and `""` followed by a code point that is not `"`
\* or by end-of-input, scan returns true if and only if the next N code points
\* are all '#', with kind raw string and the cursor right after them;
\* otherwise it returns false from the opener, with the hashes that are there
\* consumed, and neither body scanner is entered.
EmptyFormClosesOnHashes ==
    (/\ pc \in {"single_line", "multi_line", "done"}
     /\ valid_symbols[RAW_STRING]
     /\ EmptyForm) =>
        /\ Done
        /\ ret = "true" <=> HashRunAt(LeadingHashes + 3) >= LeadingHashes
        /\ ret = "true" => RawStringUpTo(2 * LeadingHashes + 3)
        /\ ret = "false" =>
              /\ lexer.pos = LeadingHashes + 3 + HashRunAt(LeadingHashes + 3)
              /\ result_symbol = entry_symbol

\* scan returned false on `#""x"#`, the cursor at the x
EmptyFormClosesOnHashes_Witness ==
    /\ input = <<Hash, Quote, Quote, Other, Quote, Hash>>
    /\ valid_symbols[RAW_STRING]
    /\ Done
    /\ ret = "false"
    /\ lexer.pos = 4

\* the input starts with '#' x N (N >= 1) and `"""`
TripleQuoteOpener ==
    /\ LeadingHashes >= 1
    /\ Len(input) >= LeadingHashes + 3
    /\ \A i \in 1..3 : input[LeadingHashes + i] = Quote

\* C18: a multi-line opener must be followed by a newline. After '#' x N
\* (N >= 1) and `"""`, when the next code point is no newline, or the input
\* ends, scan returns false from the opener and the body scanner is not
\* entered; when it is one, the body scanner is entered with the cursor after
\* exactly one newline, CR LF being one, and a closer `"""` '#' x N right
\* after that newline ends the token.
OpenerNeedsNewline ==
    /\ []((/\ pc \in {"single_line", "multi_line", "done"}
           /\ valid_symbols[RAW_STRING]
           /\ TripleQuoteOpener) =>
             IF MultiLineOpener
             THEN /\ pc # "single_line"
                  /\ (Done /\ MultiCloser = MultiBodyStart) =>
                        RawStringUpTo(MultiLineEnd)
             ELSE /\ Done
                  /\ ret = "false"
                  /\ lexer.pos = LeadingHashes + 4
                  /\ result_symbol = entry_symbol)
    /\ [][(pc # "multi_line" /\ pc' = "multi_line") =>
             (MultiLineOpener /\ lexer'.pos = MultiBodyStart)]_vars

\* scan returned the token `##"""` CR LF `"""##`, whose closer is right after
\* the newline
OpenerNeedsNewline_Witness ==
    /\ input = <<Hash, Hash, Quote, Quote, Quote, CR, LF,
                 Quote, Quote, Quote, Hash, Hash>>
    /\ Done
    /\ ret = "true"
    /\ lexer.pos = 13

-----------------------------------------------------------------------------
(* The dispatch and NUL. *)

\* none of the three guards of scan takes the call
NoGuardApplies ==
    /\ ~(valid_symbols[T_EOF] /\ LookaheadAt(1) = 0)
    /\ ~(valid_symbols[RAW_STRING] /\ LookaheadAt(1) = Hash)
    /\ ~(valid_symbols[MULTI_LINE_COMMENT] /\ LookaheadAt(1) = Slash)

\* C19: when none of the three dispatch guards applies ('#' with the raw-string
\* kind not valid, '/' with the comment kind not valid, any other first code
\* point, whitespace included), scan returns false in one step, without
\* advancing and without changing the result kind.
NoGuardNoMatch ==
    (pc # "scan" /\ NoGuardApplies) =>
        /\ Done
        /\ ret = "false"
        /\ lexer = [pos |-> 1, adv |-> 0]
        /\ result_symbol = entry_symbol

\* scan returned false on a space with every kind valid
NoGuardNoMatch_Witness ==
    /\ input = <<32>>
    /\ \A k \in Kinds : valid_symbols[k]
    /\ entry_symbol = OtherSymbol
    /\ Done
    /\ ret = "false"

\* the index of the first NUL of the input, 0 when it has none
RECURSIVE FirstNul(_)
FirstNul(p) ==
    IF p > Len(input) THEN 0
    ELSE IF input[p] = NUL THEN p
    ELSE FirstNul(p + 1)

\* C20: a lookahead of 0 is end-of-input wherever it is read. A loop that
\* reads 0 returns false at that step without advancing, whether the input
\* ends there or has a NUL and a closer after it, so no comment or raw-string
\* token has a NUL in it and the cursor of a call never passes the first NUL;
\* and with the end-of-input kind valid a call that starts at a NUL returns
\* the end-of-input token as one that starts at the end of the input does.
NulIsEndOfInput ==
    /\ []((Done /\ ret = "true" /\ result_symbol # T_EOF) =>
             (\A i \in 1..(lexer.pos - 1) : input[i] # NUL))
    /\ []((Done /\ ~(ret = "true" /\ result_symbol = T_EOF) /\ FirstNul(1) > 0) =>
             (lexer.pos <= FirstNul(1)))
    /\ []((Done /\ valid_symbols[T_EOF] /\ LookaheadAt(1) = 0) =>
             (ret = "true" /\ result_symbol = T_EOF /\ lexer.adv = 1))
    /\ [][(InLoop /\ lookahead = 0) =>
             (/\ pc' = "done"
              /\ ret' = "false"
              /\ lexer' = lexer
              /\ result_symbol' = result_symbol)]_vars

\* scan returned false at the NUL of `#"a` NUL `"#`
NulIsEndOfInput_Witness ==
    /\ input = <<Hash, Quote, Other, NUL, Quote, Hash>>
    /\ valid_symbols[RAW_STRING]
    /\ Done
    /\ ret = "false"
    /\ lexer.pos = 4

-----------------------------------------------------------------------------
(* The session. *)

\* C12: the persistent payload is always empty. Whatever calls of create,
\* scan, deserialize (with any bytes), serialize and destroy came before, the
\* handle create returned is the null handle, the byte count serialize
\* returned is 0, and a call of serialize leaves the buffer as it was.
PayloadAlwaysEmpty ==
    /\ [](payload \in {"unset", "null"})
    /\ []((op = "create") => (payload = "null"))
    /\ []((op = "serialize") => (length = 0))
    /\ [][(op' = "serialize") => (buffer' = buffer)]_vars

\* serialize was called after the last scan call returned a token and after a
\* nonempty payload was deserialized
PayloadAlwaysEmpty_Witness ==
    /\ op = "serialize"
    /\ length = 0
    /\ buffer # <<>>
    /\ calls = MaxCalls
    /\ Done
    /\ ret = "true"

\* C13: each scan call is self-contained. A scan call on the same text at the
\* same cursor with the same valid_symbols returns what the call before it
\* returned (the boolean, the result kind and the final cursor), whatever
\* was created, destroyed, serialized or deserialized in between.
ScanIsSelfContained ==
    (Done /\ calls >= 2) => (Outcome = prior)

\* a second scan call scanned a comment after a nonempty payload was
\* deserialized
ScanIsSelfContained_Witness ==
    /\ Done
    /\ op = "scan"
    /\ calls = 2
    /\ length > 0
    /\ buffer # <<>>
    /\ ret = "true"
    /\ result_symbol = MULTI_LINE_COMMENT
    /\ prior.ret = "true"

====
